---- MODULE Spec2Model ----
\* Model of src/main.py: the PER/PBR band chart generator.
\*   fetch_stock_data    -> merge, IsValidRow, fetch_stock_data, Fetch
\*   calculate_band_line -> rolling_mean, quantile, calculate_band_line
\*   plot_band_chart     -> sorted, fill_between, plot_band_chart
\*   main                -> Fetch, Skip, PlotPER, PlotPBR, Finish
\* Numbers: input columns are integers; derived values (means, quantiles,
\* band lines) are exact rationals [num, den] in lowest terms, den > 0.
EXTENDS Integers, Sequences, FiniteSets, TLC

VARIABLES pc, i, ticker, metric, fault, df_price, df_fundamental, df,
          smoothed_base, band_data, sorted_band, fills, files, skipped

vars == <<pc, i, ticker, metric, fault, df_price, df_fundamental, df,
          smoothed_base, band_data, sorted_band, fills, files, skipped>>

\* ---------------------------------------------------------------- bounds
\* Trading dates of the short input series are 1..MaxDate.
MaxDate == 3
\* Length of the longest long prepared Series (beyond the 120-row window).
MaxLen == 130
\* Length of the longest short prepared Series.
MaxShort == 5

\* ------------------------------------------------------------- constants
\* rolling(window=120, min_periods=1)
window == 120
min_periods == 1

\* STOCK_INFO.items() in dict insertion order.
STOCK_INFO ==
  << [ticker |-> "005930", name_en |-> "Samsung Electronics"],
     [ticker |-> "000660", name_en |-> "SK Hynix"] >>

\* Quantile probabilities in hundredths.
BAND_QUANTILE ==
  << [quantile |-> 10, color |-> "#FF6B6B", label |-> "10%"],
     [quantile |-> 25, color |-> "#FFB347", label |-> "25%"],
     [quantile |-> 50, color |-> "#87CEEB", label |-> "50%"],
     [quantile |-> 75, color |-> "#77DD77", label |-> "75%"],
     [quantile |-> 90, color |-> "#DDA0DD", label |-> "90%"] >>

\* Fixed PER multiples of ticker 005930.
multiples_samsung ==
  << [val |-> 8,  color |-> "#FF6B6B", label |-> "8x"],
     [val |-> 10, color |-> "#FFB347", label |-> "10x"],
     [val |-> 12, color |-> "#87CEEB", label |-> "12x"],
     [val |-> 15, color |-> "#77DD77", label |-> "15x"],
     [val |-> 20, color |-> "#DDA0DD", label |-> "20x"] >>

\* Fixed PER multiples of the else branch.
multiples_default ==
  << [val |-> 5,  color |-> "#FF6B6B", label |-> "5x"],
     [val |-> 8,  color |-> "#FFB347", label |-> "8x"],
     [val |-> 12, color |-> "#87CEEB", label |-> "12x"],
     [val |-> 15, color |-> "#77DD77", label |-> "15x"],
     [val |-> 20, color |-> "#DDA0DD", label |-> "20x"] >>

\* ------------------------------------------------------------- rationals
Abs(n) ==
  IF n < 0 THEN -n ELSE n

RECURSIVE GCD(_, _)
GCD(a, b) ==
  IF b = 0 THEN a ELSE GCD(b, a % b)

\* n/d in lowest terms, d > 0.
Rat(n, d) ==
  LET g == GCD(Abs(n), d) IN [num |-> n \div g, den |-> d \div g]

\* Not-a-number, the value pandas gives a window with too few observations.
NaN ==
  [num |-> 0, den |-> 0]

RatMul(a, b) ==
  IF a.den = 0 \/ b.den = 0 THEN NaN ELSE Rat(a.num * b.num, a.den * b.den)

RatLess(a, b) ==
  a.num * b.den < b.num * a.den

\* ------------------------------------------------------ fetch_stock_data
\* pd.merge(left, right, left_index=True, right_index=True, how='inner'):
\* every pair of rows with the same date, in the order of the left keys.
JoinRows(l, rs) ==
  [k \in 1..Len(rs) |->
     [date |-> l.date, close |-> l.close, PER |-> rs[k].PER,
      PBR |-> rs[k].PBR, EPS |-> rs[k].EPS, BPS |-> rs[k].BPS]]

\* A join by row position instead of by date.
merge_by_position(left, right) ==
  [k \in 1..(IF Len(left) < Len(right) THEN Len(left) ELSE Len(right)) |->
     [date |-> left[k].date, close |-> left[k].close, PER |-> right[k].PER,
      PBR |-> right[k].PBR, EPS |-> right[k].EPS, BPS |-> right[k].BPS]]

RECURSIVE merge(_, _)
merge(left, right) ==
  IF left = <<>> THEN <<>>
  ELSE JoinRows(Head(left), SelectSeq(right, LAMBDA r : r.date = Head(left).date))
       \o merge(Tail(left), right)

\* A mask that only rejects zeros.
IsValidRow_nonzero(r) ==
  r.PER # 0 /\ r.PBR # 0 /\ r.EPS # 0 /\ r.BPS # 0

\* The row mask of line 83.
IsValidRow(r) ==
  r.PER > 0 /\ r.PBR > 0 /\ r.EPS # 0 /\ r.BPS # 0

\* fetch_stock_data without the check of line 63: selecting the close column
\* of an empty frame raises.
fetch_stock_data_nocheck(p, f) ==
  IF p.fault \/ p.rows = <<>>
    THEN [raised |-> TRUE, asked |-> FALSE, df |-> <<>>]
  ELSE IF f.fault
    THEN [raised |-> TRUE, asked |-> TRUE, df |-> <<>>]
  ELSE IF f.rows = <<>>
    THEN [raised |-> FALSE, asked |-> TRUE, df |-> <<>>]
  ELSE [raised |-> FALSE, asked |-> TRUE,
        df |-> SelectSeq(merge(p.rows, f.rows), IsValidRow)]

\* fetch_stock_data with the adapter calls wrapped in a handler that turns a
\* fault into an empty frame.
fetch_stock_data_swallow(p, f) ==
  IF p.fault \/ p.rows = <<>>
    THEN [raised |-> FALSE, asked |-> FALSE, df |-> <<>>]
  ELSE IF f.fault \/ f.rows = <<>>
    THEN [raised |-> FALSE, asked |-> TRUE, df |-> <<>>]
  ELSE [raised |-> FALSE, asked |-> TRUE,
        df |-> SelectSeq(merge(p.rows, f.rows), IsValidRow)]

\* p, f: the adapter's responses [fault, rows].  The result says whether a
\* fault propagated, whether the fundamental series was requested, and the
\* returned frame.
fetch_stock_data(p, f) ==
  IF p.fault
    THEN [raised |-> TRUE, asked |-> FALSE, df |-> <<>>]
  ELSE IF p.rows = <<>>
    THEN [raised |-> FALSE, asked |-> FALSE, df |-> <<>>]
  ELSE IF f.fault
    THEN [raised |-> TRUE, asked |-> TRUE, df |-> <<>>]
  ELSE IF f.rows = <<>>
    THEN [raised |-> FALSE, asked |-> TRUE, df |-> <<>>]
  ELSE [raised |-> FALSE, asked |-> TRUE,
        df |-> SelectSeq(merge(p.rows, f.rows), IsValidRow)]

\* --------------------------------------------------- calculate_band_line
Column(frame, col) ==
  [k \in 1..Len(frame) |-> frame[k][col]]

\* Sum of x[lo..hi].
RECURSIVE SumRange(_, _, _)
SumRange(x, lo, hi) ==
  IF lo > hi THEN 0
  ELSE IF lo = hi THEN x[lo]
  ELSE LET mid == (lo + hi) \div 2
       IN SumRange(x, lo, mid) + SumRange(x, mid + 1, hi)

\* A window that is one observation short.
rolling_mean_short(x) ==
  [k \in 1..Len(x) |->
     LET w       == window - 1
         added   == SumRange(x, 1, k)
         removed == IF k > w THEN SumRange(x, 1, k - w) ELSE 0
         nobs    == IF k > w THEN w ELSE k
     IN IF nobs >= min_periods THEN Rat(added - removed, nobs) ELSE NaN]

\* rolling(window, min_periods).mean(): the sliding pass adds each entering
\* observation and removes each one that leaves the window; after row k the
\* running sum is what was added less what was removed, over nobs rows.
rolling_mean(x) ==
  [k \in 1..Len(x) |->
     LET added   == SumRange(x, 1, k)
         removed == IF k > window THEN SumRange(x, 1, k - window) ELSE 0
         nobs    == IF k > window THEN window ELSE k
     IN IF nobs >= min_periods THEN Rat(added - removed, nobs) ELSE NaN]

\* The values of x in ascending order: each distinct value, smallest first,
\* as often as it occurs.
RECURSIVE SortValues(_, _)
SortValues(x, vals) ==
  IF vals = {} THEN <<>>
  ELSE LET v == CHOOSE u \in vals : \A w \in vals : u <= w
           c == Cardinality({k \in 1..Len(x) : x[k] = v})
       IN [k \in 1..c |-> v] \o SortValues(x, vals \ {v})

SortInts(x) ==
  SortValues(x, {x[k] : k \in 1..Len(x)})

\* A quantile that takes the lower order statistic instead of interpolating.
quantile_lower(x, q100) ==
  LET s == SortInts(x)
  IN Rat(s[((q100 * (Len(s) - 1)) \div 100) + 1], 1)

\* Series.quantile(q), linear interpolation; q100 is q in hundredths.
quantile(x, q100) ==
  LET s    == SortInts(x)
      n    == Len(s)
      pos  == q100 * (n - 1)
      lo   == pos \div 100
      frac == pos % 100
      hi   == IF lo + 1 > n - 1 THEN n - 1 ELSE lo + 1
  IN Rat(100 * s[lo + 1] + frac * (s[hi + 1] - s[lo + 1]), 100)

\* band_data[label] = {...}: an insertion-ordered dict, kept as a sequence.
DictSet(d, entry) ==
  IF \E k \in 1..Len(d) : d[k].label = entry.label
    THEN [k \in 1..Len(d) |-> IF d[k].label = entry.label THEN entry ELSE d[k]]
    ELSE Append(d, entry)

\* The band line taken from the first smoothed value only.
ScaleLine_scalar(base, m) ==
  [k \in 1..Len(base) |-> RatMul(base[1], m)]

\* Lines 126 and 136: smoothed_base * multiple, element by element.
ScaleLine(base, m) ==
  [k \in 1..Len(base) |-> RatMul(base[k], m)]

\* The loops of lines 125-131 and 134-141: one band per table entry, in
\* table order; mults[k] is the multiple of entry k.
RECURSIVE FillBands(_, _, _, _, _)
FillBands(table, mults, base, k, acc) ==
  IF k > Len(table) THEN acc
  ELSE FillBands(table, mults, base, k + 1,
                 DictSet(acc, [label |-> table[k].label,
                               line |-> ScaleLine(base, mults[k]),
                               multiple |-> mults[k],
                               color |-> table[k].color]))

\* The table keyed the other way round.
PERTable_swapped(t) ==
  IF t = "000660" THEN multiples_default ELSE multiples_samsung

\* Lines 112-123.
PERTable(t) ==
  IF t = "005930" THEN multiples_samsung ELSE multiples_default

base_col(m) ==
  IF m = "PER" THEN "EPS" ELSE "BPS"

\* Line 106: the smoothed base of the metric.
smoothed(frame, m) ==
  rolling_mean(Column(frame, base_col(m)))

calculate_band_line(frame, m, t) ==
  LET fixed == [k \in 1..Len(PERTable(t)) |-> Rat(PERTable(t)[k].val, 1)]
      quant == [k \in 1..Len(BAND_QUANTILE) |->
                  quantile(Column(frame, m), BAND_QUANTILE[k].quantile)]
  IN IF m = "PER"
       THEN FillBands(PERTable(t), fixed, smoothed(frame, m), 1, <<>>)
       ELSE FillBands(BAND_QUANTILE, quant, smoothed(frame, m), 1, <<>>)

\* ------------------------------------------------------- plot_band_chart
\* sorted(band_data.items(), key=multiple): a stable sort; an item goes
\* behind every item already placed whose key is not greater.
\* An insertion that goes in front of items with an equal key.
RECURSIVE InsertBand_front(_, _)
InsertBand_front(s, b) ==
  IF s = <<>> THEN <<b>>
  ELSE IF ~RatLess(Head(s).multiple, b.multiple) THEN <<b>> \o s
  ELSE <<Head(s)>> \o InsertBand_front(Tail(s), b)

RECURSIVE InsertBand(_, _)
InsertBand(s, b) ==
  IF s = <<>> THEN <<b>>
  ELSE IF RatLess(b.multiple, Head(s).multiple) THEN <<b>> \o s
  ELSE <<Head(s)>> \o InsertBand(Tail(s), b)

RECURSIVE sorted_from(_, _, _)
sorted_from(d, k, acc) ==
  IF k > Len(d) THEN acc ELSE sorted_from(d, k + 1, InsertBand(acc, d[k]))

sorted(d) ==
  sorted_from(d, 1, <<>>)

\* The fill_between loop: for i in range(len(sorted_band) - 1).
fill_between(sb) ==
  [k \in 1..(Len(sb) - 1) |->
     [low |-> sb[k].label, high |-> sb[k + 1].label, color |-> sb[k].color]]

KnownTickers ==
  {STOCK_INFO[k].ticker : k \in 1..Len(STOCK_INFO)}

\* STOCK_INFO[ticker] raises KeyError for a ticker that is not in the table;
\* otherwise the chart is drawn and saved under output_filename.
plot_band_chart(frame, t, m, output_filename) ==
  IF t \notin KnownTickers
    THEN [raised |-> TRUE, smoothed_base |-> <<>>, band_data |-> <<>>,
          sorted_band |-> <<>>, fills |-> <<>>, saved |-> <<>>]
    ELSE LET bd == calculate_band_line(frame, m, t)
             sb == sorted(bd)
         IN [raised |-> FALSE, smoothed_base |-> smoothed(frame, m),
             band_data |-> bd, sorted_band |-> sb,
             fills |-> fill_between(sb), saved |-> <<output_filename>>]

\* ------------------------------------------------------------------ main
\* One prefix for every ticker.
prefix_same(t) ==
  "samsung"

prefix(t) ==
  IF t = "005930" THEN "samsung" ELSE "hynix"

per_filename(t) ==
  prefix(t) \o "_per_band.png"

pbr_filename(t) ==
  prefix(t) \o "_pbr_band.png"

\* ---------------------------------------------------------------- inputs
Dates ==
  1..MaxDate

\* Closing price levels; the close of date d is level + d.
Closes ==
  {70, 90}

\* Fundamental rows: two valid ones and one row for each way of failing
\* the mask.
FundKinds ==
  { [PER |-> 10, PBR |-> 1,  EPS |-> 10, BPS |-> 100],
    [PER |-> 12, PBR |-> 3,  EPS |-> -4, BPS |-> 50],
    [PER |-> 0,  PBR |-> 1,  EPS |-> 10, BPS |-> 100],
    [PER |-> -2, PBR |-> 1,  EPS |-> 10, BPS |-> 100],
    [PER |-> 10, PBR |-> 0,  EPS |-> 10, BPS |-> 100],
    [PER |-> 10, PBR |-> -1, EPS |-> 10, BPS |-> 100],
    [PER |-> 10, PBR |-> 1,  EPS |-> 0,  BPS |-> 100],
    [PER |-> 10, PBR |-> 1,  EPS |-> 10, BPS |-> 0] }

RECURSIVE Ascending(_)
Ascending(S) ==
  IF S = {} THEN <<>>
  ELSE LET m == CHOOSE x \in S : \A y \in S : x <= y
       IN <<m>> \o Ascending(S \ {m})

PriceSeries(S, c) ==
  LET ds == Ascending(S)
  IN [k \in 1..Len(ds) |-> [date |-> ds[k], close |-> c + ds[k]]]

FundSeries(S, v) ==
  LET ds == Ascending(S)
  IN [k \in 1..Len(ds) |->
        [date |-> ds[k], PER |-> v[ds[k]].PER, PBR |-> v[ds[k]].PBR,
         EPS |-> v[ds[k]].EPS, BPS |-> v[ds[k]].BPS]]

\* Date-indexed series as the adapter returns them: ascending, no date twice.
PriceSeriesSet ==
  {PriceSeries(S, c) : S \in SUBSET Dates, c \in Closes}

FundSeriesSet ==
  UNION { {FundSeries(S, v) : v \in [S -> FundKinds]} : S \in SUBSET Dates }

Fault ==
  [fault |-> TRUE, rows |-> <<>>]

PriceResponses ==
  {Fault} \cup {[fault |-> FALSE, rows |-> s] : s \in PriceSeriesSet}

FundResponses ==
  {Fault} \cup {[fault |-> FALSE, rows |-> s] : s \in FundSeriesSet}

\* --------------------------------------------------------------- actions
Init ==
  /\ pc = "fetch"
  /\ i = 1
  /\ ticker = ""
  /\ metric = ""
  /\ fault = FALSE
  /\ df_price = <<>>
  /\ df_fundamental = <<>>
  /\ df = <<>>
  /\ smoothed_base = <<>>
  /\ band_data = <<>>
  /\ sorted_band = <<>>
  /\ fills = <<>>
  /\ files = <<>>
  /\ skipped = {}

\* main, line 275: df = fetch_stock_data(ticker, ...).  A fault raised by the
\* adapter is caught nowhere and ends the run.
Fetch ==
  /\ pc = "fetch"
  /\ i <= Len(STOCK_INFO)
  /\ \E p \in PriceResponses, f \in FundResponses :
       LET r == fetch_stock_data(p, f)
       IN /\ pc' = IF r.raised THEN "aborted" ELSE "fetched"
          /\ fault' = (p.fault \/ (p.rows # <<>> /\ f.fault))
          /\ df_price' = p.rows
          /\ df_fundamental' = IF r.asked THEN f.rows ELSE <<>>
          /\ df' = r.df
  /\ ticker' = STOCK_INFO[i].ticker
  /\ metric' = ""
  /\ smoothed_base' = <<>>
  /\ band_data' = <<>>
  /\ sorted_band' = <<>>
  /\ fills' = <<>>
  /\ UNCHANGED <<i, files, skipped>>

\* main, lines 276-278: if df.empty: print skip; continue.
Skip ==
  /\ pc = "fetched"
  /\ df = <<>>
  /\ skipped' = skipped \cup {ticker}
  /\ i' = i + 1
  /\ pc' = "fetch"
  /\ df_price' = <<>>
  /\ df_fundamental' = <<>>
  /\ UNCHANGED <<ticker, metric, fault, df, smoothed_base, band_data,
                 sorted_band, fills, files>>

Plot(m, output_filename) ==
  LET r == plot_band_chart(df, ticker, m, output_filename)
  IN /\ metric' = m
     /\ smoothed_base' = r.smoothed_base
     /\ band_data' = r.band_data
     /\ sorted_band' = r.sorted_band
     /\ fills' = r.fills
     /\ files' = files \o r.saved

\* main, line 288.
PlotPER ==
  /\ pc = "fetched"
  /\ df # <<>>
  /\ Plot("PER", per_filename(ticker))
  /\ pc' = "per_done"
  /\ df_price' = <<>>
  /\ df_fundamental' = <<>>
  /\ UNCHANGED <<i, ticker, fault, df, skipped>>

\* main, line 291.
PlotPBR ==
  /\ pc = "per_done"
  /\ Plot("PBR", pbr_filename(ticker))
  /\ pc' = "pbr_done"
  /\ UNCHANGED <<i, ticker, fault, df, df_price, df_fundamental, skipped>>

\* main, line 269: the for statement takes the next item; the frame and the
\* chart of the finished iteration are gone.
NextTicker ==
  /\ pc = "pbr_done"
  /\ i' = i + 1
  /\ pc' = "fetch"
  /\ metric' = ""
  /\ df' = <<>>
  /\ smoothed_base' = <<>>
  /\ band_data' = <<>>
  /\ sorted_band' = <<>>
  /\ fills' = <<>>
  /\ UNCHANGED <<ticker, fault, df_price, df_fundamental, files, skipped>>

\* main, lines 293-294: the loop is exhausted.
Finish ==
  /\ pc = "fetch"
  /\ i > Len(STOCK_INFO)
  /\ pc' = "done"
  /\ UNCHANGED <<i, ticker, metric, fault, df_price, df_fundamental, df,
                 smoothed_base, band_data, sorted_band, fills, files, skipped>>

Next ==
  \/ Fetch
  \/ Skip
  \/ PlotPER
  \/ PlotPBR
  \/ NextTicker
  \/ Finish

Spec ==
  Init /\ [][Next]_vars

\* ---------------------------------- the band functions on prepared Series
Metrics ==
  {"PER", "PBR"}

\* The two configured tickers and one that is not in STOCK_INFO.
BandTickers ==
  {"005930", "000660", "035420"}

\* EPS is a for the first k rows and b afterwards (it moves in steps, once a
\* quarter); BPS follows it.
ShortSteps ==
  { [a |-> 10, b |-> 10, k |-> 0],
    [a |-> 10, b |-> 40, k |-> 1],
    [a |-> -6, b |-> 9,  k |-> 2] }

LongSteps ==
  { [a |-> 10, b |-> 10, k |-> 0],
    [a |-> 10, b |-> 40, k |-> 1],
    [a |-> 10, b |-> 40, k |-> 60],
    [a |-> -6, b |-> 9,  k |-> window] }

PBRVals ==
  {1, 2, 4}

\* The PBR column repeats one of these patterns.
ShortPatterns ==
  UNION {[1..n -> PBRVals] : n \in 1..3} \cup {<<3, 1, 5, 2, 4>>}

LongPatterns ==
  {<<2>>, <<3, 1, 5, 2, 4>>}

LongLens ==
  {window - 1, window, window + 1, MaxLen}

\* A prepared Series: every row passes the mask, dates ascend.
Frame(n, st, pat, c) ==
  [j \in 1..n |->
     [date  |-> j,
      close |-> c + j,
      PER   |-> 10,
      PBR   |-> pat[((j - 1) % Len(pat)) + 1],
      EPS   |-> IF j <= st.k THEN st.a ELSE st.b,
      BPS   |-> 10 * (IF j <= st.k THEN st.a ELSE st.b)]]

BandFrames ==
  {Frame(n, st, pat, c) : n \in 1..MaxShort, st \in ShortSteps,
                          pat \in ShortPatterns, c \in Closes}
  \cup {Frame(n, st, pat, c) : n \in LongLens, st \in LongSteps,
                               pat \in LongPatterns, c \in Closes}

InitBand ==
  /\ pc = "args"
  /\ df \in BandFrames
  /\ metric \in Metrics
  /\ ticker \in BandTickers
  /\ i = 1
  /\ fault = FALSE
  /\ df_price = <<>>
  /\ df_fundamental = <<>>
  /\ smoothed_base = <<>>
  /\ band_data = <<>>
  /\ sorted_band = <<>>
  /\ fills = <<>>
  /\ files = <<>>
  /\ skipped = {}

\* band_data = calculate_band_line(df, metric, ticker)
CalcBand ==
  /\ pc = "args"
  /\ band_data' = calculate_band_line(df, metric, ticker)
  /\ smoothed_base' = smoothed(df, metric)
  /\ pc' = "calculated"
  /\ UNCHANGED <<i, ticker, metric, fault, df_price, df_fundamental, df,
                 sorted_band, fills, files, skipped>>

\* plot_band_chart(df, ticker, metric, output_filename)
PlotBand ==
  /\ pc = "args"
  /\ \E output_filename \in {"out.png"} :
       LET r == plot_band_chart(df, ticker, metric, output_filename)
       IN /\ pc' = IF r.raised THEN "keyerror" ELSE "plotted"
          /\ smoothed_base' = r.smoothed_base
          /\ band_data' = r.band_data
          /\ sorted_band' = r.sorted_band
          /\ fills' = r.fills
          /\ files' = files \o r.saved
  /\ UNCHANGED <<i, ticker, metric, fault, df_price, df_fundamental, df,
                 skipped>>

NextBand ==
  \/ CalcBand
  \/ PlotBand

SpecBand ==
  InitBand /\ [][NextBand]_vars

\* ================================================ properties of main (Spec)
PriceDates ==
  {df_price[k].date : k \in 1..Len(df_price)}

FundDates ==
  {df_fundamental[k].date : k \in 1..Len(df_fundamental)}

PriceAt(d) ==
  CHOOSE r \in {df_price[k] : k \in 1..Len(df_price)} : r.date = d

FundAt(d) ==
  CHOOSE r \in {df_fundamental[k] : k \in 1..Len(df_fundamental)} : r.date = d

Violates(r) ==
  r.PER <= 0 \/ r.PBR <= 0 \/ r.EPS = 0 \/ r.BPS = 0

SameFundamentals(row, f) ==
  /\ row.date = f.date
  /\ row.PER = f.PER
  /\ row.PBR = f.PBR
  /\ row.EPS = f.EPS
  /\ row.BPS = f.BPS

\* C1: every row of the Series returned by fetch_stock_data has PER > 0,
\* PBR > 0, EPS # 0 and BPS # 0; a fundamental row that violates one of the
\* four has no row in the result, and every row of the result carries the
\* values of a fundamental row of the input, unaltered.
C1_PostFilter ==
  pc = "fetched" =>
    /\ \A k \in 1..Len(df) :
         df[k].PER > 0 /\ df[k].PBR > 0 /\ df[k].EPS # 0 /\ df[k].BPS # 0
    /\ \A k \in 1..Len(df) :
         \E j \in 1..Len(df_fundamental) : SameFundamentals(df[k], df_fundamental[j])
    /\ \A j \in 1..Len(df_fundamental) :
         Violates(df_fundamental[j]) =>
           \A k \in 1..Len(df) : df[k].date # df_fundamental[j].date

\* A fetch that kept a row and dropped a joined row for each kind of violation
\* of a ratio (zero and negative).
C1_Witness ==
  /\ pc = "fetched"
  /\ Len(df) >= 1
  /\ \E j \in 1..Len(df_fundamental) :
       df_fundamental[j].PER < 0 /\ df_fundamental[j].date \in PriceDates
  /\ \E j \in 1..Len(df_fundamental) :
       df_fundamental[j].EPS = 0 /\ df_fundamental[j].date \in PriceDates

\* C2: for non-empty inputs the Series returned by fetch_stock_data has
\* exactly the dates present in both inputs whose fundamental row passes the
\* mask; each row carries the close and the fundamentals of its date
\* unchanged; the dates ascend.
C2_InnerJoin ==
  (pc = "fetched" /\ df_price # <<>> /\ df_fundamental # <<>>) =>
    /\ {df[k].date : k \in 1..Len(df)}
         = {d \in PriceDates \cap FundDates : ~Violates(FundAt(d))}
    /\ \A k \in 1..Len(df) :
         /\ df[k].close = PriceAt(df[k].date).close
         /\ SameFundamentals(df[k], FundAt(df[k].date))
    /\ \A k \in 1..(Len(df) - 1) : df[k].date < df[k + 1].date

\* A fetch whose inputs each have a date the other lacks and share one date,
\* which is kept.
C2_Witness ==
  /\ pc = "fetched"
  /\ PriceDates \ FundDates # {}
  /\ FundDates \ PriceDates # {}
  /\ Len(df) = 1
  /\ df[1].date \in PriceDates \cap FundDates

TickerAt(k) ==
  STOCK_INFO[k].ticker

\* The chart files of a configured ticker, as the spec names them.
ChartFiles(t) ==
  IF t = "005930"
    THEN {"samsung_per_band.png", "samsung_pbr_band.png"}
    ELSE {"hynix_per_band.png", "hynix_pbr_band.png"}

Written ==
  {files[k] : k \in 1..Len(files)}

\* C3: when the adapter raises no fault and the price series, the fundamental
\* series or the joined-and-filtered Series is empty, fetch_stock_data returns
\* an empty frame without a fault; main then writes no file for the ticker,
\* records the skip and goes to the next ticker; a run that ends has written
\* both charts of every ticker it did not skip and none of a skipped one.
C3_SkipAndContinue ==
  /\ [][ /\ (pc = "fetch" /\ pc' \in {"fetched", "aborted"} /\ ~fault'
               /\ (df_price' = <<>> \/ df_fundamental' = <<>> \/ df' = <<>>))
              => (pc' = "fetched" /\ df' = <<>>)
         /\ (pc = "fetched" /\ df = <<>>)
              => (files' = files /\ pc' = "fetch" /\ i' = i + 1
                  /\ ticker \in skipped' /\ ~fault') ]_vars
  /\ [](pc = "done" =>
          \A k \in 1..Len(STOCK_INFO) :
            IF TickerAt(k) \in skipped
              THEN ChartFiles(TickerAt(k)) \cap Written = {}
              ELSE ChartFiles(TickerAt(k)) \subseteq Written)

\* A finished run that skipped the first ticker and charted the second.
C3_Witness ==
  /\ pc = "done"
  /\ skipped = {"005930"}
  /\ files = <<"hynix_per_band.png", "hynix_pbr_band.png">>

\* C4 as claimed: a fault raised by the adapter while fetching a ticker does
\* not end the run (the ticker is skipped and the loop goes on).
C4_FaultSkipsTicker ==
  fault => pc # "aborted"

\* C4, amended: a fault raised by the adapter while fetching a ticker ends the
\* run there: nothing runs afterwards, and neither that ticker nor any later
\* one has a chart written or a skip recorded.
C4_FaultEndsRun ==
  /\ [](fault =>
          /\ pc = "aborted"
          /\ \A k \in i..Len(STOCK_INFO) :
               /\ ChartFiles(TickerAt(k)) \cap Written = {}
               /\ TickerAt(k) \notin skipped)
  /\ [][pc # "aborted"]_vars

\* The fundamental request of the first ticker raised after its price series
\* had arrived; the second ticker is never reached.
C4_Witness ==
  /\ fault
  /\ pc = "aborted"
  /\ i = 1
  /\ df_price # <<>>
  /\ files = <<>>

\* C5 as claimed: a run that completes has written exactly the four files.
C5_ExactlyFour ==
  pc = "done" =>
    /\ Len(files) = 4
    /\ Written = ChartFiles("005930") \cup ChartFiles("000660")

\* C5, amended: no run writes a name other than the four or a name twice, and
\* a run that completes has written both files of every ticker it did not
\* skip and none of a skipped one (four files when no ticker was skipped, two
\* or none otherwise).
C5_TwoPerChartedTicker ==
  /\ Written \subseteq ChartFiles("005930") \cup ChartFiles("000660")
  /\ \A j, k \in 1..Len(files) : files[j] = files[k] => j = k
  /\ pc = "done" =>
       /\ Len(files) = 2 * (Len(STOCK_INFO) - Cardinality(skipped))
       /\ \A k \in 1..Len(STOCK_INFO) :
            IF TickerAt(k) \in skipped
              THEN ChartFiles(TickerAt(k)) \cap Written = {}
              ELSE ChartFiles(TickerAt(k)) \subseteq Written

\* A finished run in which both tickers were charted.
C5_Witness ==
  /\ pc = "done"
  /\ skipped = {}
  /\ files = <<"samsung_per_band.png", "samsung_pbr_band.png",
               "hynix_per_band.png", "hynix_pbr_band.png">>

\* ============================= properties of the band functions (SpecBand)
Calculated ==
  pc \in {"calculated", "plotted"}

RECURSIVE WindowSum(_, _, _)
WindowSum(x, lo, hi) ==
  IF lo > hi THEN 0
  ELSE IF hi - lo < 8 THEN x[hi] + WindowSum(x, lo, hi - 1)
  ELSE WindowSum(x, lo, lo + 7) + WindowSum(x, lo + 8, hi)

Min(a, b) ==
  IF a < b THEN a ELSE b

BaseColumn ==
  IF metric = "PER" THEN [k \in 1..Len(df) |-> df[k].EPS]
                    ELSE [k \in 1..Len(df) |-> df[k].BPS]

\* C6: the smoothed base has one value per row of the Series; the value at
\* row k (1-based) is the mean of the base column over the last min(k, 120)
\* rows ending at k; the first value is the base column's first value.
C6_SmoothedBase ==
  Calculated =>
    /\ Len(smoothed_base) = Len(df)
    /\ smoothed_base[1] = [num |-> BaseColumn[1], den |-> 1]
    /\ \A k \in 1..Len(df) :
         LET cnt == Min(k, 120)
         IN /\ smoothed_base[k].den > 0
            /\ smoothed_base[k].num * cnt
                 = WindowSum(BaseColumn, k - cnt + 1, k) * smoothed_base[k].den

\* A Series longer than the window whose base column changes inside the last
\* window, so that the row that left the window matters.
C6_Witness ==
  /\ pc = "calculated"
  /\ Len(df) = 121
  /\ df[1].EPS = 10
  /\ df[2].EPS = 40
  /\ metric = "PER"
  /\ smoothed_base[121] = [num |-> 40, den |-> 1]
  /\ smoothed_base[120] = [num |-> 159, den |-> 4]

Multiples ==
  [k \in 1..Len(band_data) |-> band_data[k].multiple]

Whole(s) ==
  [k \in 1..Len(s) |-> [num |-> s[k], den |-> 1]]

\* C7: for metric PER the five multiples are 8, 10, 12, 15, 20 for ticker
\* 005930 and 5, 8, 12, 15, 20 for every other ticker, whatever the Series.
C7_FixedMultiples ==
  (Calculated /\ metric = "PER") =>
    Multiples = IF ticker = "005930" THEN Whole(<<8, 10, 12, 15, 20>>)
                                      ELSE Whole(<<5, 8, 12, 15, 20>>)

\* The PER bands of a ticker that has no entry of its own.
C7_Witness ==
  /\ pc = "calculated"
  /\ metric = "PER"
  /\ ticker = "035420"
  /\ Len(band_data) = 5

PBRColumn ==
  [k \in 1..Len(df) |-> df[k].PBR]

\* The r-th smallest value of x, by counting.
OrderStat(x, r) ==
  CHOOSE v \in {x[k] : k \in 1..Len(x)} :
    /\ Cardinality({k \in 1..Len(x) : x[k] < v}) < r
    /\ r <= Cardinality({k \in 1..Len(x) : x[k] <= v})

\* m = (a + b) / 2 ... in general m = ((100 - frac) a + frac b) / 100.
IsBlend(m, a, b, frac) ==
  m.den > 0 /\ m.num * 100 = m.den * ((100 - frac) * a + frac * b)

\* C8: for metric PBR the five multiples are the linear-interpolation
\* quantiles 0.10, 0.25, 0.50, 0.75, 0.90 of the whole PBR column (the value
\* at fractional rank p(n-1) between the neighbouring order statistics); the
\* 0.50 multiple is the median, 3 for the values 1, 2, 3, 4, 5.
C8_QuantileMultiples ==
  (Calculated /\ metric = "PBR") =>
    LET n == Len(df)
        p == <<10, 25, 50, 75, 90>>
    IN /\ Len(band_data) = 5
       /\ \A j \in 1..5 :
            LET rank == p[j] * (n - 1)
                lo   == rank \div 100
            IN IsBlend(band_data[j].multiple,
                       OrderStat(PBRColumn, lo + 1),
                       OrderStat(PBRColumn, Min(lo + 2, n)),
                       rank % 100)
       /\ IF n % 2 = 1
            THEN band_data[3].multiple
                   = [num |-> OrderStat(PBRColumn, (n + 1) \div 2), den |-> 1]
            ELSE IsBlend(band_data[3].multiple, OrderStat(PBRColumn, n \div 2),
                         OrderStat(PBRColumn, (n \div 2) + 1), 50)
       /\ {PBRColumn[k] : k \in 1..n} = 1..5 /\ n = 5
            => band_data[3].multiple = [num |-> 3, den |-> 1]

\* The PBR values 3, 1, 5, 2, 4: median 3, and a 0.10 quantile between ranks.
C8_Witness ==
  /\ pc = "calculated"
  /\ metric = "PBR"
  /\ PBRColumn = <<3, 1, 5, 2, 4>>
  /\ band_data[3].multiple = [num |-> 3, den |-> 1]
  /\ band_data[1].multiple = [num |-> 7, den |-> 5]

\* C9: every band line has one value per row, equal to the smoothed base of
\* that row times the band's multiple; when the base column is a constant c,
\* every PER band line is c times its multiple at every row.
C9_BandLine ==
  Calculated =>
    /\ \A j \in 1..Len(band_data) :
         /\ Len(band_data[j].line) = Len(df)
         /\ \A k \in 1..Len(df) :
              LET v == band_data[j].line[k]
                  b == smoothed_base[k]
                  m == band_data[j].multiple
              IN v.den > 0 /\ v.num * b.den * m.den = b.num * m.num * v.den
    /\ (metric = "PER" /\ \A k \in 1..Len(df) : df[k].EPS = df[1].EPS) =>
         \A j \in 1..Len(band_data) : \A k \in 1..Len(df) :
           LET val == IF ticker = "005930" THEN <<8, 10, 12, 15, 20>>
                                           ELSE <<5, 8, 12, 15, 20>>
           IN band_data[j].line[k] = [num |-> df[1].EPS * val[j], den |-> 1]

\* The longest Series with EPS = 10 throughout: lines 80, 100, 120, 150, 200
\* in the last row.
C9_Witness ==
  /\ pc = "calculated"
  /\ metric = "PER"
  /\ ticker = "005930"
  /\ Len(df) = MaxLen
  /\ \A k \in 1..Len(df) : df[k].EPS = 10
  /\ [j \in 1..5 |-> band_data[j].line[MaxLen].num] = <<80, 100, 120, 150, 200>>

PositionIn(d, label) ==
  CHOOSE k \in 1..Len(d) : d[k].label = label

\* C10: the rendering order is a permutation of the BandSet with
\* non-decreasing multiples in which bands of equal multiple keep their
\* insertion order; the shaded regions are the adjacent pairs of that order,
\* lowest first, one fewer than the bands.
C10_StableOrder ==
  pc = "plotted" =>
    /\ Len(sorted_band) = Len(band_data)
    /\ \A k \in 1..Len(band_data) :
         Cardinality({j \in 1..Len(sorted_band) : sorted_band[j] = band_data[k]}) = 1
    /\ \A j \in 1..(Len(sorted_band) - 1) :
         LET a == sorted_band[j].multiple
             b == sorted_band[j + 1].multiple
         IN /\ a.num * b.den <= b.num * a.den
            /\ a.num * b.den = b.num * a.den =>
                 PositionIn(band_data, sorted_band[j].label)
                   < PositionIn(band_data, sorted_band[j + 1].label)
    /\ Len(fills) = Len(sorted_band) - 1
    /\ \A j \in 1..Len(fills) :
         /\ fills[j].low = sorted_band[j].label
         /\ fills[j].high = sorted_band[j + 1].label

\* A chart whose PBR quantiles tie in part (10% = 25% and 75% = 90%) and whose
\* bands are drawn in insertion order.
C10_Witness ==
  /\ pc = "plotted"
  /\ metric = "PBR"
  /\ Len(sorted_band) = 5
  /\ sorted_band[1].multiple = sorted_band[2].multiple
  /\ sorted_band[2].multiple # sorted_band[3].multiple
  /\ [j \in 1..5 |-> sorted_band[j].label] = <<"10%", "25%", "50%", "75%", "90%">>
  /\ Len(fills) = 4

====
